---- MODULE Spec2Model ----
(***************************************************************************)
(* TerminAI API (src/main.py): a FastAPI application with two routes,      *)
(* POST /generate-command and GET /health.                                 *)
(*                                                                         *)
(* Conventions of the model.                                               *)
(*   - A Python str is a sequence of pieces (TLA+ strings); concatenation  *)
(*     is \o.  A completion text is a sequence of one-character pieces,    *)
(*     so that str.strip() has something to do.                            *)
(*   - An Optional[X] is a sequence of at most one X: None is <<>>.        *)
(*   - A context value (Dict[str, Any]) is a record [kind, text, num]; a   *)
(*     key that is not in the dict is the value Absent of the total map.   *)
(*   - The application runs on one event loop (uvicorn.run, one process):  *)
(*     `running` is the request whose coroutine the loop is executing.     *)
(***************************************************************************)
EXTENDS Integers, Sequences, FiniteSets, TLC

\* ------------------------------------------------------------------ bounds
\* Number of request slots (requests in flight at the same time).
NReq == 2
\* Longest completion text, in characters.
MaxLen == 3

Reqs == 1..NReq

\* ----------------------------------------------------------- Python values
None == <<>>
Some(x) == <<x>>

\* The characters a completion text is made of: two that str.strip() removes
\* and one that it keeps.
Chars == {" ", "\n", "f"}

\* What str.strip() with no argument removes.
IsWhitespace(ch) == ch \in {" ", "\t", "\n", "\r"}

RECURSIVE lstrip(_)
lstrip(s) ==
    IF s # <<>> /\ IsWhitespace(Head(s)) THEN lstrip(Tail(s)) ELSE s

RECURSIVE rstrip(_)
rstrip(s) ==
    IF s # <<>> /\ IsWhitespace(s[Len(s)])
    THEN rstrip(SubSeq(s, 1, Len(s) - 1))
    ELSE s

\* Mutant of strip: only the leading whitespace is removed.
strip_LeftOnly(s) == lstrip(s)

\* str.strip() (line 160)
strip(s) == rstrip(lstrip(s))

\* All texts of at most n characters.
RECURSIVE TextsUpTo(_)
TextsUpTo(n) ==
    IF n = 0 THEN {<<>>}
    ELSE LET shorter == TextsUpTo(n - 1)
         IN shorter \cup {Append(t, c) : t \in {u \in shorter : Len(u) = n - 1}, c \in Chars}

\* Context values.  kind "str" carries text, kind "int" carries num.
StrVal(t) == [kind |-> "str", text |-> t, num |-> 0]
IntVal(n) == [kind |-> "int", text |-> "", num |-> n]
Absent == [kind |-> "absent", text |-> "", num |-> 0]

\* Python truthiness of what request.context.get(key) returns (None when the
\* key is absent): lines 136, 138, 140.
Truthy(v) ==
    CASE v.kind = "absent" -> FALSE
      [] v.kind = "str" -> v.text # ""
      [] v.kind = "int" -> v.num # 0

Digit(d) == <<"0", "1", "2", "3", "4", "5", "6", "7", "8", "9">>[d + 1]

RECURSIVE Decimal(_)
Decimal(n) ==
    IF n < 10 THEN <<Digit(n)>> ELSE Append(Decimal(n \div 10), Digit(n % 10))

\* What an f-string renders for {request.context['key']}: str(value).
Str(v) ==
    CASE v.kind = "str" -> <<v.text>>
      [] v.kind = "int" -> Decimal(v.num)
      [] v.kind = "absent" -> <<"None">>

\* ------------------------------------------------------------ configuration
\* The values TERMINAI_API_KEY may have: line 56 refuses to start without a
\* non-empty one.
Secrets == {"key-A", "key-B"}

\* ------------------------------------------------------------ the requests
Routes == {"generate", "health"}

\* The x-api-key header: not sent, sent empty, or sent with some value.
Headers == {None, Some("")} \cup {Some(k) : k \in Secrets}

Keys == {"os", "shell", "current_dir", "user"}
Values == {StrVal(""), StrVal("/bin/zsh"), IntVal(0), IntVal(42)}
EmptyContext == [k \in Keys |-> Absent]
Contexts ==
    {c \in [Keys -> Values \cup {Absent}] :
        c["user"] \in {Absent, StrVal("/bin/zsh"), IntVal(42)}}
Queries == {<<"list files">>, <<"show disk usage">>}

\* A JSON body: query may be missing; context may be omitted, a mapping, or
\* something that is not a mapping (a list).
Body(q, kind, c) == [query |-> q, ctxKind |-> kind, context |-> c]
NoBody == Body(None, "omitted", EmptyContext)
WellFormedBodies ==
    {Body(Some(q), "mapping", c) : q \in Queries, c \in Contexts}
        \cup {Body(Some(q), "omitted", EmptyContext) : q \in Queries}
MalformedBodies ==
    {Body(None, "mapping", EmptyContext), Body(None, "omitted", EmptyContext)}
        \cup {Body(Some(q), "list", EmptyContext) : q \in Queries}
Bodies == WellFormedBodies \cup MalformedBodies

\* The bodies the concurrent specification draws from.
SampleContexts ==
    {[EmptyContext EXCEPT !["os"] = StrVal("/bin/zsh")],
     [EmptyContext EXCEPT !["os"] = StrVal("/bin/zsh"), !["user"] = IntVal(42)],
     [EmptyContext EXCEPT !["shell"] = IntVal(42), !["user"] = IntVal(42)]}
SampleBodies ==
    {Body(Some(<<"list files">>), "mapping", c) : c \in SampleContexts}
        \cup {Body(None, "mapping", EmptyContext),
              Body(Some(<<"list files">>), "list", EmptyContext)}

\* class CommandRequest (lines 73-76): query is required, context defaults to
\* {} and must be a mapping.  None when validation fails.
CommandRequest(b) ==
    IF b.query = None \/ b.ctxKind = "list"
    THEN None
    ELSE Some([query |-> b.query[1],
               context |-> IF b.ctxKind = "omitted" THEN EmptyContext ELSE b.context])

\* --------------------------------------------------------- the completions
ErrorTexts == {<<"Connection error.">>, <<"Rate limit reached">>}
Raise(e) == [kind |-> "raise", text |-> e, choices |-> <<>>]
Return(cs) == [kind |-> "return", text |-> <<>>, choices |-> cs]
Choice(content) == [content |-> content]

Texts == TextsUpTo(MaxLen)
Outcomes ==
    {Raise(e) : e \in ErrorTexts}
        \cup {Return(<<>>), Return(<<Choice(None)>>)}
        \cup {Return(<<Choice(Some(t))>>) : t \in Texts}
        \cup {Return(<<Choice(Some(t)), Choice(Some(<<"f", " ">>))>>) : t \in TextsUpTo(1)}
SampleOutcomes ==
    {Raise(<<"Connection error.">>), Return(<<>>),
     Return(<<Choice(Some(<<" ", "f">>))>>)}

\* ------------------------------------------------------------------- state
VARIABLES
    API_KEY,    \* the configured secret (line 55)
    running,    \* the request whose coroutine the event loop is executing, or 0
    pc,         \* each request's position
    route,      \* each request's route
    header,     \* each request's x-api-key header
    body,       \* each request's JSON body
    messages,   \* the messages built for each request (None before)
    outcome,    \* what the completion call returned or raised (None before)
    response,   \* each request's response (None before)
    calls,      \* how many completion calls were made for each request
    steps       \* the steps taken for each request, in order

vars == <<API_KEY, running, pc, route, header, body, messages, outcome, response, calls, steps>>

\* ------------------------------------------------------------ key check
HTTPException(status_code, detail) ==
    [status |-> status_code, body |-> [detail |-> detail]]

\* Mutant of verify_api_key: the check for a missing key is left out.
verify_api_key_NoMissingCheck(x_api_key) ==
    IF x_api_key # Some(API_KEY)
    THEN Some(HTTPException(401, <<"Invalid API key">>))
    ELSE None

\* Mutant of verify_api_key: the comparison with API_KEY is left out.
verify_api_key_NoComparison(x_api_key) ==
    IF x_api_key = None \/ x_api_key = Some("")
    THEN Some(HTTPException(401, <<"API key is required">>))
    ELSE None

\* verify_api_key (lines 60-69): None when the key is accepted, otherwise the
\* HTTPException raised.
verify_api_key(x_api_key) ==
    IF x_api_key = None \/ x_api_key = Some("")
    THEN Some(HTTPException(401, <<"API key is required">>))
    ELSE IF x_api_key[1] # API_KEY
    THEN Some(HTTPException(401, <<"Invalid API key">>))
    ELSE None

\* Mutant of Dependencies: the key check guards every route.
Dependencies_Everywhere(rt) == {"verify_api_key"}

\* Mutant of Dependencies: the key check guards no route.
Dependencies_Nowhere(rt) == {}

\* The dependencies each route declares (line 108: Depends(verify_api_key);
\* line 171: none).
Dependencies(rt) == IF rt = "generate" THEN {"verify_api_key"} ELSE {}

\* The body model each route declares (line 107: request: CommandRequest).
HasBodyModel(rt) == rt = "generate"

\* Mutant of RequestValidationError: a body that does not validate is answered
\* like an exception of the handler.
RequestValidationError_AsGeneric ==
    HTTPException(500, <<"Error generating command: ", "request body validation error">>)

\* The response to a body that does not validate against the route's model.
RequestValidationError ==
    [status |-> 422, body |-> [detail |-> <<"request body validation error">>]]

\* ---------------------------------------------------- prompt construction
\* lines 127-132
system_prompt ==
    <<"\n        You are TerminAI, an AI assistant specialized in terminal commands and operations.",
      "\n        Provide clear, concise, and accurate responses to user queries.",
      "\n        For command suggestions, output ONLY the exact command the user should run.",
      "\n        Do not include explanations, comments, or markdown formatting.",
      "\n        ">>

\* Mutant of ContextLine: the line is written whenever the key is present.
ContextLine_WhenPresent(context, key, label) ==
    IF context[key] # Absent
    THEN <<label>> \o Str(context[key]) \o <<"\n">>
    ELSE <<>>

\* lines 136-141, one of the three ifs
ContextLine(context, key, label) ==
    IF Truthy(context[key])
    THEN <<label>> \o Str(context[key]) \o <<"\n">>
    ELSE <<>>

\* Mutant of context_prompt: the user key is written too.
context_prompt_WithUser(context) ==
    <<"Context information:\n">>
        \o ContextLine(context, "os", "Operating System: ")
        \o ContextLine(context, "shell", "Shell: ")
        \o ContextLine(context, "current_dir", "Current Directory: ")
        \o ContextLine(context, "user", "User: ")

\* lines 135-141
context_prompt(context) ==
    <<"Context information:\n">>
        \o ContextLine(context, "os", "Operating System: ")
        \o ContextLine(context, "shell", "Shell: ")
        \o ContextLine(context, "current_dir", "Current Directory: ")

closing_instruction == "\n\nPlease provide the exact terminal command for this query:"

\* line 144
user_prompt(request) ==
    context_prompt(request.context)
        \o <<"\nUser Query: ">> \o request.query \o <<closing_instruction>>

\* lines 150-153
Messages(request) ==
    <<[role |-> "system", content |-> system_prompt],
      [role |-> "user", content |-> user_prompt(request)]>>

\* ------------------------------------------------------- response mapping
\* class CommandResponse (lines 90-93): explanation defaults to None.
CommandResponse(command) == [command |-> command, explanation |-> None]

\* The choice line 160 reads.
SelectedChoice(choices) == choices[1]

\* The exception the try block (lines 149-164) ends with, given what the
\* completion call did: None when it ends normally.
RaisedException(o) ==
    IF o.kind = "raise" THEN Some(o.text)
    ELSE IF o.choices = <<>> THEN Some(<<"list index out of range">>)
    ELSE IF SelectedChoice(o.choices).content = None
    THEN Some(<<"'NoneType' object has no attribute 'strip'">>)
    ELSE None

\* Mutant of ErrorDetail: the exception's text is left out.
ErrorDetail_NoText(e) == <<"Error generating command: ", "internal error">>

\* line 168
ErrorDetail(e) == <<"Error generating command: ">> \o e

\* lines 159-168: the handler's result after the completion call
ResponseFor(o) ==
    IF RaisedException(o) = None
    THEN [status |-> 200,
          body |-> CommandResponse(strip(SelectedChoice(o.choices).content[1]))]
    ELSE HTTPException(500, ErrorDetail(RaisedException(o)[1]))

\* lines 170-173
health_check ==
    [status |-> 200, body |-> [status |-> "healthy", service |-> "TerminAI API"]]

\* ----------------------------------------------------------------- actions
Init ==
    /\ API_KEY \in Secrets
    /\ running = 0
    /\ pc = [r \in Reqs |-> "idle"]
    /\ route = [r \in Reqs |-> "health"]
    /\ header = [r \in Reqs |-> None]
    /\ body = [r \in Reqs |-> NoBody]
    /\ messages = [r \in Reqs |-> None]
    /\ outcome = [r \in Reqs |-> None]
    /\ response = [r \in Reqs |-> None]
    /\ calls = [r \in Reqs |-> 0]
    /\ steps = [r \in Reqs |-> <<>>]

\* A client sends a request: a POST /generate-command with a body from
\* `bodies`, or a GET /health, either with any x-api-key header.
Arrive(r, bodies) ==
    /\ pc[r] = "idle"
    /\ \E rt \in Routes, h \in Headers, b \in bodies :
        /\ route' = [route EXCEPT ![r] = rt]
        /\ header' = [header EXCEPT ![r] = h]
        /\ body' = [body EXCEPT ![r] = IF rt = "generate" THEN b ELSE NoBody]
    /\ pc' = [pc EXCEPT ![r] = "arrived"]
    /\ UNCHANGED <<API_KEY, running, messages, outcome, response, calls, steps>>

\* The route's dependencies are resolved (lines 108, 60-69): the HTTPException
\* of verify_api_key is the response.
SolveDependencies(r) ==
    /\ pc[r] = "arrived"
    /\ running = 0
    /\ IF "verify_api_key" \in Dependencies(route[r])
       THEN /\ steps' = [steps EXCEPT ![r] = Append(@, "key_check")]
            /\ IF verify_api_key(header[r]) = None
               THEN /\ pc' = [pc EXCEPT ![r] = "authorized"]
                    /\ UNCHANGED response
               ELSE /\ pc' = [pc EXCEPT ![r] = "done"]
                    /\ response' = [response EXCEPT ![r] = verify_api_key(header[r])]
       ELSE /\ pc' = [pc EXCEPT ![r] = "authorized"]
            /\ UNCHANGED <<response, steps>>
    /\ UNCHANGED <<API_KEY, running, route, header, body, messages, outcome, calls>>

\* The body is validated against the route's model (lines 107, 73-76), after
\* the dependencies and before the handler is entered.
ValidateBody(r) ==
    /\ pc[r] = "authorized"
    /\ running = 0
    /\ IF HasBodyModel(route[r]) /\ CommandRequest(body[r]) = None
       THEN /\ pc' = [pc EXCEPT ![r] = "done"]
            /\ response' = [response EXCEPT ![r] = Some(RequestValidationError)]
            /\ steps' = [steps EXCEPT ![r] = Append(@, "validation_error")]
       ELSE /\ pc' = [pc EXCEPT ![r] = "validated"]
            /\ UNCHANGED <<response, steps>>
    /\ UNCHANGED <<API_KEY, running, route, header, body, messages, outcome, calls>>

\* generate_command is entered and runs to the completion call (lines
\* 123-146): the coroutine has the event loop from here on.
BuildPrompt(r) ==
    /\ pc[r] = "validated"
    /\ route[r] = "generate"
    /\ running = 0
    /\ running' = r
    /\ messages' = [messages EXCEPT ![r] = Some(Messages(CommandRequest(body[r])[1]))]
    /\ steps' = [steps EXCEPT ![r] = Append(@, "prompt")]
    /\ pc' = [pc EXCEPT ![r] = "prompted"]
    /\ UNCHANGED <<API_KEY, route, header, body, outcome, response, calls>>

\* groq_client.chat.completions.create(...) is called (lines 149-157): a call
\* of the synchronous client, with no await, so the coroutine keeps the loop.
CallCompletion(r) ==
    /\ pc[r] = "prompted"
    /\ running = r
    /\ calls' = [calls EXCEPT ![r] = @ + 1]
    /\ steps' = [steps EXCEPT ![r] = Append(@, "call")]
    /\ pc' = [pc EXCEPT ![r] = "calling"]
    /\ UNCHANGED <<API_KEY, running, route, header, body, messages, outcome, response>>

\* The completion service answers, or the call raises.
CompletionEnds(r, outcomes) ==
    /\ pc[r] = "calling"
    /\ \E o \in outcomes : outcome' = [outcome EXCEPT ![r] = Some(o)]
    /\ pc' = [pc EXCEPT ![r] = "returned"]
    /\ UNCHANGED <<API_KEY, running, route, header, body, messages, response, calls, steps>>

\* The handler maps the result to its response (lines 159-168) and ends.
MapResponse(r) ==
    /\ pc[r] = "returned"
    /\ running = r
    /\ response' = [response EXCEPT ![r] = Some(ResponseFor(outcome[r][1]))]
    /\ steps' = [steps EXCEPT ![r] = Append(@, "map")]
    /\ pc' = [pc EXCEPT ![r] = "done"]
    /\ running' = 0
    /\ UNCHANGED <<API_KEY, route, header, body, messages, outcome, calls>>

\* health_check runs (lines 170-173).
HealthCheck(r) ==
    /\ pc[r] = "validated"
    /\ route[r] = "health"
    /\ running = 0
    /\ response' = [response EXCEPT ![r] = Some(health_check)]
    /\ pc' = [pc EXCEPT ![r] = "done"]
    /\ UNCHANGED <<API_KEY, running, route, header, body, messages, outcome, calls, steps>>

\* The client has its response; nothing of the request is kept.
Close(r) ==
    /\ pc[r] = "done"
    /\ pc' = [pc EXCEPT ![r] = "idle"]
    /\ route' = [route EXCEPT ![r] = "health"]
    /\ header' = [header EXCEPT ![r] = None]
    /\ body' = [body EXCEPT ![r] = NoBody]
    /\ messages' = [messages EXCEPT ![r] = None]
    /\ outcome' = [outcome EXCEPT ![r] = None]
    /\ response' = [response EXCEPT ![r] = None]
    /\ calls' = [calls EXCEPT ![r] = 0]
    /\ steps' = [steps EXCEPT ![r] = <<>>]
    /\ UNCHANGED <<API_KEY, running>>

\* The service with NReq requests in flight, their bodies and completions
\* drawn from the samples.
Next ==
    \E r \in Reqs :
        \/ Arrive(r, SampleBodies)
        \/ SolveDependencies(r)
        \/ ValidateBody(r)
        \/ BuildPrompt(r)
        \/ CallCompletion(r)
        \/ CompletionEnds(r, SampleOutcomes)
        \/ MapResponse(r)
        \/ HealthCheck(r)
        \/ Close(r)

Spec == Init /\ [][Next]_vars

\* The service with one request at a time, its body and completion drawn from
\* the full sets.
NextSingle ==
    \/ Arrive(1, Bodies)
    \/ SolveDependencies(1)
    \/ ValidateBody(1)
    \/ BuildPrompt(1)
    \/ CallCompletion(1)
    \/ CompletionEnds(1, Outcomes)
    \/ MapResponse(1)
    \/ HealthCheck(1)
    \/ Close(1)

SpecSingle == Init /\ [][NextSingle]_vars

\* ------------------------------------------------------------------ claims
IsPost(r) == pc[r] # "idle" /\ route[r] = "generate"
IsHealth(r) == pc[r] # "idle" /\ route[r] = "health"
Answered(r) == pc[r] = "done"

IsPrefix(s, t) == Len(s) <= Len(t) /\ s = SubSeq(t, 1, Len(s))

\* sub occurs in s as a contiguous run of pieces
Contains(s, sub) ==
    \E i \in 0..(Len(s) - Len(sub)) : SubSeq(s, i + 1, i + Len(sub)) = sub

AuthRequired == [status |-> 401, body |-> [detail |-> <<"API key is required">>]]
AuthRejected == [status |-> 401, body |-> [detail |-> <<"Invalid API key">>]]

ReturnedText(r) ==
    /\ IsPost(r) /\ Answered(r) /\ outcome[r] # None
    /\ outcome[r][1].kind = "return"
    /\ outcome[r][1].choices # <<>>
    /\ outcome[r][1].choices[1].content # None

FirstText(r) == outcome[r][1].choices[1].content[1]

\* c is t without its leading and trailing whitespace
IsStripped(c, t) ==
    \E i \in 1..(Len(t) + 1), j \in 0..Len(t) :
        /\ c = SubSeq(t, i, j)
        /\ \A k \in 1..Len(t) : (k < i \/ k > j) => IsWhitespace(t[k])
        /\ c # <<>> => ~IsWhitespace(c[1]) /\ ~IsWhitespace(c[Len(c)])

\* C3 as stated: when the completion call returns text T, the response is 200
\* and its body is exactly {command: T stripped}, with no explanation field.
C3_BodyIsCommandOnly ==
    \A r \in Reqs :
        ReturnedText(r) =>
            /\ response[r][1].status = 200
            /\ DOMAIN response[r][1].body = {"command"}
            /\ IsStripped(response[r][1].body.command, FirstText(r))

\* C3 amended: when the completion call returns text T, the response is 200
\* and its body is {command: T stripped, explanation: null}: the explanation
\* field is never populated, and it is present with the null value.
C3_BodyIsCommandAndNullExplanation ==
    \A r \in Reqs :
        ReturnedText(r) =>
            /\ response[r][1].status = 200
            /\ DOMAIN response[r][1].body = {"command", "explanation"}
            /\ IsStripped(response[r][1].body.command, FirstText(r))
            /\ response[r][1].body.explanation = None

C3_Witness ==
    \E r \in Reqs :
        /\ ReturnedText(r)
        /\ FirstText(r) = <<" ", "f", "\n">>
        /\ response[r][1].body.command = <<"f">>

\* C4: when the completion call or the extraction of its result raises, the
\* response is 500 and its detail contains the exception's text, whatever the
\* cause.
C4_AnyExceptionIsGeneric500 ==
    \A r \in Reqs :
        (IsPost(r) /\ Answered(r) /\ outcome[r] # None
                   /\ RaisedException(outcome[r][1]) # None) =>
            /\ response[r][1].status = 500
            /\ DOMAIN response[r][1].body = {"detail"}
            /\ response[r][1].body.detail[1] = "Error generating command: "
            /\ Contains(response[r][1].body.detail, RaisedException(outcome[r][1])[1])
            /\ outcome[r][1].kind = "raise" =>
                Contains(response[r][1].body.detail, outcome[r][1].text)

C4_Witness ==
    \E r \in Reqs :
        /\ IsPost(r) /\ Answered(r) /\ outcome[r] # None
        /\ outcome[r][1] = Raise(<<"Rate limit reached">>)
        /\ response[r][1].status = 500

\* The recognized context keys and their labels, in the order of the prompt.
Recognized == <<"os", "shell", "current_dir">>
Label == <<"Operating System: ", "Shell: ", "Current Directory: ">>

Places(p, piece) == {i \in 1..Len(p) : p[i] = piece}

RECURSIVE SumLens(_, _)
SumLens(context, n) ==
    IF n = 0 THEN 0
    ELSE SumLens(context, n - 1)
            + (IF Truthy(context[Recognized[n]])
               THEN Len(Str(context[Recognized[n]])) + 2
               ELSE 0)

\* p is the user prompt the claim describes for this query and context
IsPromptOf(p, query, context) ==
    /\ p[1] = "Context information:\n"
    /\ \A n \in 1..3 :
        IF Truthy(context[Recognized[n]])
        THEN \E i \in 2..Len(p) :
                /\ Places(p, Label[n]) = {i}
                /\ SubSeq(p, i + 1, i + Len(Str(context[Recognized[n]])))
                        = Str(context[Recognized[n]])
                /\ p[i + Len(Str(context[Recognized[n]])) + 1] = "\n"
        ELSE Places(p, Label[n]) = {}
    /\ \A m, n \in 1..3 : \A i \in Places(p, Label[m]), j \in Places(p, Label[n]) :
        m < n => i < j
    /\ \E q \in 2..Len(p) :
        /\ p[q] = "\nUser Query: "
        /\ \A n \in 1..3 : \A i \in Places(p, Label[n]) : i < q
        /\ SubSeq(p, q + 1, q + Len(query)) = query
        /\ q + Len(query) + 1 = Len(p)
        /\ p[Len(p)] = "\n\nPlease provide the exact terminal command for this query:"
    /\ Len(p) = 3 + Len(query) + SumLens(context, 3)

\* C5: the user prompt starts with 'Context information:', has one line per
\* recognized key with a truthy value ('Operating System: ', 'Shell: ',
\* 'Current Directory: ' and the value, in that order), has no line for a key
\* that is absent or falsy, and ends with the query and the closing
\* instruction.
C5_PromptLists_TruthyKeysInOrder ==
    \A r \in Reqs :
        messages[r] # None =>
            /\ messages[r][1][2].role = "user"
            /\ IsPromptOf(messages[r][1][2].content,
                          CommandRequest(body[r])[1].query,
                          CommandRequest(body[r])[1].context)

C5_Witness ==
    \E r \in Reqs :
        /\ messages[r] # None
        /\ body[r].ctxKind = "mapping"
        /\ body[r].context["os"] = StrVal("/bin/zsh")
        /\ body[r].context["shell"] = Absent
        /\ body[r].context["current_dir"] = IntVal(42)
        /\ Places(messages[r][1][2].content, "Shell: ") = {}
        /\ Places(messages[r][1][2].content, "Current Directory: ") = {5}

AgreeOnRecognized(c1, c2) == \A n \in 1..3 : c1[Recognized[n]] = c2[Recognized[n]]

\* C6: two requests that agree on the query and on os, shell and current_dir
\* send identical messages, however the rest of their contexts differ.
C6_MessagesDependOnRecognizedKeysOnly ==
    \A r1, r2 \in Reqs :
        (/\ messages[r1] # None
         /\ messages[r2] # None
         /\ CommandRequest(body[r1])[1].query = CommandRequest(body[r2])[1].query
         /\ AgreeOnRecognized(CommandRequest(body[r1])[1].context,
                              CommandRequest(body[r2])[1].context))
            => messages[r1] = messages[r2]

C6_Witness ==
    \E r1, r2 \in Reqs :
        /\ messages[r1] # None /\ messages[r2] # None
        /\ AgreeOnRecognized(body[r1].context, body[r2].context)
        /\ body[r1].context["user"] # body[r2].context["user"]
        /\ calls[r1] = 1 /\ calls[r2] = 1

HealthPayload ==
    [status |-> 200, body |-> [status |-> "healthy", service |-> "TerminAI API"]]

\* C7: GET /health is answered 200 with the fixed payload in every state,
\* whatever its credential and whatever the other requests and the
\* completion service do; it passes no key check and makes no completion call.
C7_HealthIsFixed ==
    \A r \in Reqs :
        IsHealth(r) =>
            /\ steps[r] = <<>>
            /\ calls[r] = 0
            /\ messages[r] = None /\ outcome[r] = None
            /\ pc[r] \in {"arrived", "authorized", "validated", "done"}
            /\ Answered(r) => response[r] = Some(HealthPayload)

C7_Witness ==
    \E r1, r2 \in Reqs :
        /\ IsHealth(r1) /\ Answered(r1) /\ header[r1] # Some(API_KEY)
        /\ IsPost(r2) /\ Answered(r2) /\ response[r2][1].status = 500

\* C8 as stated: every response to POST /generate-command is 200, 401 or 500,
\* and a badly shaped body sent with a valid credential is answered 500.
C8_StatusIs200_401_500 ==
    \A r \in Reqs :
        IsPost(r) /\ Answered(r) =>
            /\ response[r][1].status \in {200, 401, 500}
            /\ header[r] = Some(API_KEY) /\ CommandRequest(body[r]) = None =>
                response[r][1].status = 500

\* C8 amended: every response to POST /generate-command is 200, 401, 422 or
\* 500; a badly shaped body sent with a valid credential is answered with the
\* request-validation error 422 before the handler is entered (no prompt, no
\* completion call), and 500 is the answer only to an exception raised inside
\* the handler.
C8_StatusIs200_401_422_500 ==
    \A r \in Reqs :
        IsPost(r) /\ Answered(r) =>
            /\ response[r][1].status \in {200, 401, 422, 500}
            /\ header[r] = Some(API_KEY) /\ CommandRequest(body[r]) = None =>
                /\ response[r][1].status = 422
                /\ messages[r] = None /\ calls[r] = 0
            /\ response[r][1].status = 500 =>
                outcome[r] # None /\ RaisedException(outcome[r][1]) # None

C8_Witness ==
    \E r \in Reqs :
        /\ IsPost(r) /\ Answered(r)
        /\ header[r] = Some(API_KEY)
        /\ body[r].query = None
        /\ response[r][1].status = 422

Count(s, x) == Cardinality({i \in 1..Len(s) : s[i] = x})

\* C9: the steps of a request come in the order key check, prompt assembly,
\* completion call, response mapping; the call is made only after the key
\* check succeeded, at most once, and after it fails the request ends with
\* 500 without a second call.
C9_StepsInOrderOneCall ==
    \A r \in Reqs :
        IsPost(r) =>
            /\ \/ IsPrefix(steps[r], <<"key_check", "prompt", "call", "map">>)
               \/ steps[r] = <<"key_check", "validation_error">>
            /\ calls[r] = Count(steps[r], "call")
            /\ calls[r] <= 1
            /\ calls[r] = 1 => header[r] = Some(API_KEY) /\ steps[r][1] = "key_check"
            /\ pc[r] # "arrived" => steps[r] # <<>>
            /\ Answered(r) /\ outcome[r] # None /\ outcome[r][1].kind = "raise" =>
                calls[r] = 1 /\ response[r][1].status = 500

C9_Witness ==
    \E r \in Reqs :
        /\ IsPost(r) /\ Answered(r) /\ outcome[r] # None
        /\ outcome[r][1].kind = "raise"
        /\ steps[r] = <<"key_check", "prompt", "call", "map">>
        /\ response[r][1].status = 500

\* The next step of request r that the service itself takes.
ServiceStep(r) ==
    \/ SolveDependencies(r)
    \/ ValidateBody(r)
    \/ BuildPrompt(r)
    \/ HealthCheck(r)

\* C10: while the completion call of one request is outstanding, every other
\* request the service has not answered yet can take its next step (and so be
\* completed); and two answered requests with the same route, header, body
\* and completion result have the same response.
C10_OthersProceedDuringCall ==
    /\ \A r1, r2 \in Reqs :
        (r1 # r2 /\ pc[r1] = "calling" /\ pc[r2] \in {"arrived", "authorized", "validated"})
            => ENABLED ServiceStep(r2)
    /\ \A r1, r2 \in Reqs :
        (/\ Answered(r1) /\ Answered(r2)
         /\ route[r1] = route[r2] /\ header[r1] = header[r2]
         /\ body[r1] = body[r2] /\ outcome[r1] = outcome[r2])
            => response[r1] = response[r2]

====
